---- MODULE Spec2Model ----
(***************************************************************************)
(* Model of packages/slate-sync/index.js: the deploy coalescer (sync,      *)
(* upload, replace, maybeDeploy, deploy and the two themekit commands) and *)
(* the theme-id resolver (fetchMainThemeId).                               *)
(*                                                                         *)
(* JavaScript runs the module on one thread: a call runs to its first      *)
(* await on an external command, and the return of an external command     *)
(* runs the continuation to the next await.  Each action below is one such *)
(* run-to-suspension step.                                                 *)
(***************************************************************************)
EXTENDS Integers, Sequences, FiniteSets, TLC

\* ------------------------------------------------------------------ bounds
MaxLen == 2         \* longest `files` array handed to sync()
MaxDeploys == 2     \* deploy() calls per behaviour
MaxThemes == 3      \* longest `themes` array in a response
MaxOverlap == 3     \* deploy() calls per behaviour where deploys overlap

Files == {"a.liquid", "b.liquid"}

SeqsUpTo(S, n) == UNION {[1..k -> S] : k \in 0..n}

\* The arrays a caller can hand to sync(), duplicates included.
FileLists == SeqsUpTo(Files, MaxLen)

VARIABLES
    deploying,      \* index.js:11
    filesToDeploy,  \* index.js:12, an array kept in insertion order
    exited,         \* process.exit(1) was called
    deploys,        \* every deploy() call so far, in call order
    synced,         \* every path handed to sync() in a non-empty array so far
    last,           \* the last call made or command returned: its result, and
                    \* whether it found the module idle with nothing pending
    fetch,          \* the fetchMainThemeId() call, if any
    slateEnv        \* index.js:5, what the environment provider answers for
                    \* the two optional values: timeout and ignoreFiles

vars == <<deploying, filesToDeploy, exited, deploys, synced, last, fetch, slateEnv>>

\* --------------------------------------------------------- pure helpers

Range(s) == {s[i] : i \in 1..Len(s)}

\* [...new Set(s)]: first occurrences, in order.
RECURSIVE Dedup(_)
Dedup(s) ==
    IF s = <<>> THEN <<>>
    ELSE LET front == Dedup(SubSeq(s, 1, Len(s) - 1))
             x == s[Len(s)]
         IN IF x \in Range(front) THEN front ELSE Append(front, x)

\* Mutants of mergeFiles: the spread without the Set, and an assignment that
\* drops what was pending.
mergeFiles_noDedup(pending, files) == pending \o files

mergeFiles_overwrites(pending, files) == Dedup(files)

\* index.js:223
mergeFiles(pending, files) == Dedup(pending \o files)

\* The paths handed to some deploy() call in its `files` snapshot.
Handed == UNION {Range(deploys[i].files) : i \in 1..Len(deploys)}

\* index.js:74, the commands deploy() accepts
isDeployCmd(cmd) == cmd \in {"upload", "replace"}

\* The values the environment provider hands out are strings, read from
\* process.env.  A timeout is passed through whole and is a string here; an
\* ignore-files value is taken apart and is the sequence of its characters.
\* An unset value is the empty string.
TimeoutValues == {"", "30s"}
IgnoreFilesValues == {<<>>, <<"x">>, <<"a", ":", "b">>}

\* What the provider answers in the environments considered.
EnvSettings == [timeout : TimeoutValues, ignoreFiles : IgnoreFilesValues]

NoOptions == [timeout |-> "", ignoreFiles |-> <<>>]

\* index.js:59, String.prototype.split on a one-character separator: the
\* pieces between the separators, empty pieces included.
RECURSIVE split(_, _)
split(s, sep) ==
    LET cuts == {i \in 1..Len(s) : s[i] = sep}
    IN IF cuts = {} THEN <<s>>
       ELSE LET i == CHOOSE c \in cuts : \A d \in cuts : c <= d
            IN <<SubSeq(s, 1, i - 1)>> \o split(SubSeq(s, i + 1, Len(s)), sep)

\* index.js:45-64 after the validation: the four values every command
\* carries, then `timeout` when the provider's value is truthy (54-56) and
\* `ignoredFiles`, the value split on ':', when that one is (58-61).  The
\* empty string is the falsy string.
generateConfigFlags(timeout, ignoreFiles) ==
    LET flags == [password |-> "password", themeid |-> "themeid",
                  store |-> "store", env |-> "env"]
        f1 == IF timeout # "" THEN ("timeout" :> timeout) @@ flags ELSE flags
    IN IF ignoreFiles # <<>>
       THEN ("ignoredFiles" :> split(ignoreFiles, ":")) @@ f1
       ELSE f1

\* _generateConfigFlags() in the environment of the process.
configFlags == generateConfigFlags(slateEnv.timeout, slateEnv.ignoreFiles)

\* Mutant of truthyArray: the test `files.length`.
truthyArray_nonEmpty(files) == Len(files) > 0

\* index.js:115, `if (files)`: an array is truthy, the empty one included.
truthyArray(files) == TRUE

\* Mutant of deployFlags: noDelete set whatever the command.
deployFlags_alwaysNoDelete(cmd, files) ==
    ("allow-live" :> TRUE) @@ ("noDelete" :> TRUE) @@ ("files" :> files)
        @@ configFlags

\* index.js:113-126, the flags of the 'deploy' command
deployFlags(cmd, files) ==
    LET f0 == configFlags
        f1 == IF truthyArray(files) THEN ("files" :> files) @@ f0 ELSE f0
        f2 == IF cmd = "upload" THEN ("noDelete" :> TRUE) @@ f1 ELSE f1
    IN ("allow-live" :> TRUE) @@ f2

\* index.js:97-106, the 'configure' command
configureCommand == [name |-> "configure", flags |-> configFlags]

\* index.js:129-135, the 'deploy' command
deployCommand(cmd, files) == [name |-> "deploy", flags |-> deployFlags(cmd, files)]

\* A themekit command as issued, with what slateEnv.validate().isValid had
\* answered to the _generateConfigFlags call that built its flags.
issue(command, valid) ==
    [name |-> command.name, flags |-> command.flags, envValid |-> valid]

\* Mutant of validateEnvValues: the errors are printed, the process goes on.
validateEnvValues_noExit(valid) == TRUE

\* index.js:28-43: TRUE when _validateEnvValues returns, FALSE when it ends
\* the process with process.exit(1).
validateEnvValues(valid) == valid

\* Mutant of promiseThemekitConfig: no catch around the command.
promiseThemekitConfig_rethrows(res) == IF res = "err" THEN "threw" ELSE "returned"

\* index.js:99-109: how promiseThemekitConfig ends when the 'configure'
\* command ended with res ("ok" or "err"): the catch swallows the error.
promiseThemekitConfig(res) == "returned"

\* index.js:84-93 with 107-109 and 136-138: what deploy()'s promise settles
\* to when a themekit command ended with res.  The command's error is caught
\* where it is awaited, deploy's own catch (87-89) takes whatever its try
\* block throws, and the function goes on to `return maybeDeploy`.
deploySettles_propagates(res) == IF res = "err" THEN "rejected" ELSE "resolved"

deploySettles(res) == "resolved"

emptyInput_never(files) == FALSE

\* index.js:219
emptyInput(files) == Len(files) = 0

\* ------------------------------------------------- fetchMainThemeId

\* The JSON values a response can carry in `errors`, and JavaScript's
\* truthiness of each (index.js:169, `if (parsed.errors)`): undefined, null
\* and the empty string are falsy; a non-empty string and any array, the
\* empty one included, are truthy.
ErrorsValues == {"absent", "null", "emptyString", "string", "emptyArray"}

truthy(v) == v \in {"string", "emptyArray"}

\* The elements of a `themes` array: objects with an id and a role, and null.
ThemeIds == {1, 2}
ThemeObjects == [kind : {"object"}, id : ThemeIds, role : {"main", "unpublished"}]
NullTheme == [kind |-> "null", id |-> 0, role |-> "none"]
ThemeElems == ThemeObjects \cup {NullTheme}

\* `themes` is absent, something that is not an array, or an array.
ThemesValues ==
    {[kind |-> "absent", elems |-> <<>>], [kind |-> "string", elems |-> <<>>]}
    \cup {[kind |-> "array", elems |-> e] : e \in SeqsUpTo(ThemeElems, MaxThemes)}

NoThemes == [kind |-> "absent", elems |-> <<>>]

\* The bodies a response can end with: text JSON.parse rejects, the JSON
\* value null, a JSON scalar (a number, a string, a boolean), or an object.
Bodies ==
    {[kind |-> k, errors |-> "absent", themes |-> NoThemes] :
        k \in {"unparsable", "null", "scalar"}}
    \cup [kind : {"object"}, errors : ErrorsValues, themes : ThemesValues]

\* index.js:195, themes.find((t) => t.role === 'main') from element i on:
\* the index of the first element whose role is 'main', 0 when the array
\* ends without one, and -1 when reading `role` of a null element throws
\* before one is found.
RECURSIVE findMainFrom(_, _)
findMainFrom(elems, i) ==
    IF i > Len(elems) THEN 0
    ELSE IF elems[i].kind = "null" THEN -1
    ELSE IF elems[i].role = "main" THEN i
    ELSE findMainFrom(elems, i + 1)

\* Mutant of findMain: the last element whose role is 'main'.
findMain_last(elems) ==
    LET mains == {i \in 1..Len(elems) : elems[i].role = "main"}
    IN IF \E i \in 1..Len(elems) : elems[i].kind = "null" THEN findMainFrom(elems, 1)
       ELSE IF mains = {} THEN 0
       ELSE CHOOSE i \in mains : \A j \in mains : j <= i

findMain(elems) == findMainFrom(elems, 1)

Threw == [outcome |-> "threw", error |-> "none", value |-> 0]
Rejected(e) == [outcome |-> "rejected", error |-> e, value |-> 0]
Resolved(v) == [outcome |-> "resolved", error |-> "none", value |-> v]

\* index.js:166-211, the 'end' handler on the buffered body: what it does to
\* the promise.  JSON.parse (167) throws on text that is not JSON, and
\* `parsed.errors` (169) throws on null; an exception leaves the handler
\* without settling the promise.
handleEnd(body) ==
    IF body.kind \in {"unparsable", "null"} THEN Threw
    ELSE IF truthy(body.errors) THEN Rejected("ApiError")
    ELSE IF body.themes.kind # "array" THEN Rejected("MalformedResponseError")
    ELSE LET m == findMain(body.themes.elems)
         IN IF m = -1 THEN Threw
            ELSE IF m = 0 THEN Rejected("NoMainThemeError")
            ELSE Resolved(body.themes.elems[m].id)

\* ------------------------------------------------------------- records

NoCall == [kind |-> "none", result |-> "none", idleEmpty |-> FALSE]

NoBody == [kind |-> "none", errors |-> "absent", themes |-> NoThemes]
NoResult == [outcome |-> "pending", error |-> "none", value |-> 0]

NoFetch == [pc |-> "none", envValid |-> TRUE, body |-> NoBody, result |-> NoResult]

\* A deploy() call that has run to its first suspension (index.js:73-85,
\* 96-106): the flag is set, then the environment is validated (`valid` is
\* what slateEnv.validate().isValid answers at that moment; the process
\* exits when it is false), then the 'configure' command is issued.
newDeploy(cmd, files, valid) ==
    [cmd |-> cmd, files |-> files,
     pc |-> IF validateEnvValues(valid) THEN "configure" ELSE "exit",
     issued |-> IF validateEnvValues(valid)
                THEN <<issue(configureCommand, valid)>> ELSE <<>>,
     promise |-> "pending"]

\* Mutant of maybeDeploy: no check of `deploying`.
maybeDeploy_noBusyCheck(busy, pending) ==
    IF Len(pending) > 0
    THEN [result |-> "deploy", pending |-> <<>>,
          start |-> <<[cmd |-> "upload", files |-> pending]>>]
    ELSE [result |-> "resolved", pending |-> pending, start |-> <<>>]

\* Mutant of maybeDeploy: the snapshot is taken, filesToDeploy is not cleared.
maybeDeploy_keepsPending(busy, pending) ==
    IF busy
    THEN [result |-> "Deploy already in progress.", pending |-> pending, start |-> <<>>]
    ELSE IF Len(pending) > 0
         THEN [result |-> "deploy", pending |-> pending,
               start |-> <<[cmd |-> "upload", files |-> pending]>>]
         ELSE [result |-> "resolved", pending |-> pending, start |-> <<>>]

\* index.js:14-26.  The result of maybeDeploy() on the given module state:
\* the error it rejects with or "deploy"/"resolved", the value filesToDeploy
\* is left with, and the deploy() call it makes (at most one).
maybeDeploy(busy, pending) ==
    IF busy
    THEN [result |-> "Deploy already in progress.", pending |-> pending, start |-> <<>>]
    ELSE IF Len(pending) > 0
         THEN [result |-> "deploy", pending |-> <<>>,
               start |-> <<[cmd |-> "upload", files |-> pending]>>]
         ELSE [result |-> "resolved", pending |-> pending, start |-> <<>>]

\* The deploy() calls that have started and not yet completed.
InFlight == {i \in 1..Len(deploys) : deploys[i].pc \in {"configure", "deploy"}}

\* ---------------------------------------------------------------- Init

\* The module as loaded (index.js:11-12), nothing called yet.
InitModule ==
    /\ deploying = FALSE
    /\ filesToDeploy = <<>>
    /\ exited = FALSE
    /\ deploys = <<>>
    /\ synced = {}
    /\ last = NoCall
    /\ fetch = NoFetch

\* The process starts in an environment with neither optional value set.
Init == InitModule /\ slateEnv = NoOptions

\* The process starts in any of the environments considered.
InitEnv == InitModule /\ slateEnv \in EnvSettings

\* ------------------------------------------------------------- actions

\* An exception nobody catches ended the process: one thrown in the 'end'
\* handler, or the 'error' event of a request that has no listener for it.
uncaught == fetch.pc = "errored" \/ fetch.result.outcome = "threw"

\* The process is alive: no process.exit(1), no uncaught exception.
running == ~exited /\ ~uncaught

\* Mutant of deploy: the flag is set after the first await, not before.
deploy_flagAfterAwait(cmd, files) ==
    /\ isDeployCmd(cmd)
    /\ UNCHANGED deploying
    /\ \E valid \in BOOLEAN :
          /\ deploys' = Append(deploys, newDeploy(cmd, files, valid))
          /\ exited' = ~validateEnvValues(valid)

\* index.js:73-94 up to the first await: deploy(cmd, files) called.
\* `deploying = true` (80) comes before the validation of the environment in
\* promiseThemekitConfig (97), which ends the process when it fails (41).
deploy(cmd, files) ==
    /\ isDeployCmd(cmd)
    /\ deploying' = TRUE
    /\ \E valid \in BOOLEAN :
          /\ deploys' = Append(deploys, newDeploy(cmd, files, valid))
          /\ exited' = ~validateEnvValues(valid)

\* index.js:218-226
sync(files) ==
    /\ running
    /\ UNCHANGED slateEnv
    /\ IF emptyInput(files)
       THEN /\ last' = [kind |-> "sync", result |-> "No files to deploy.",
                        idleEmpty |-> (~deploying /\ filesToDeploy = <<>>)]
            /\ UNCHANGED <<deploying, filesToDeploy, exited, deploys, synced>>
       ELSE LET merged == mergeFiles(filesToDeploy, files)
                r == maybeDeploy(deploying, merged)
            IN /\ last' = [kind |-> "sync", result |-> r.result,
                           idleEmpty |-> (~deploying /\ filesToDeploy = <<>>)]
               /\ synced' = synced \cup Range(files)
               /\ filesToDeploy' = r.pending
               /\ IF r.start # <<>>
                  THEN deploy(r.start[1].cmd, r.start[1].files)
                  ELSE UNCHANGED <<deploying, exited, deploys>>
    /\ UNCHANGED fetch

\* index.js:93: a caller calls the function a settled deploy() promise
\* handed it, which is maybeDeploy (14-26).
callMaybeDeploy ==
    /\ running
    /\ UNCHANGED slateEnv
    /\ \E i \in 1..Len(deploys) : deploys[i].promise = "resolved"
    /\ LET r == maybeDeploy(deploying, filesToDeploy)
       IN /\ last' = [kind |-> "maybeDeploy", result |-> r.result,
                      idleEmpty |-> (~deploying /\ filesToDeploy = <<>>)]
          /\ filesToDeploy' = r.pending
          /\ IF r.start # <<>>
             THEN deploy(r.start[1].cmd, r.start[1].files)
             ELSE UNCHANGED <<deploying, exited, deploys>>
    /\ UNCHANGED <<synced, fetch>>

\* index.js:232-234
upload ==
    /\ running
    /\ UNCHANGED slateEnv
    /\ deploy("upload", <<>>)
    /\ last' = [kind |-> "upload", result |-> "deploy",
                idleEmpty |-> (~deploying /\ filesToDeploy = <<>>)]
    /\ UNCHANGED <<filesToDeploy, synced, fetch>>

\* index.js:228-230
replace ==
    /\ running
    /\ UNCHANGED slateEnv
    /\ deploy("replace", <<>>)
    /\ last' = [kind |-> "replace", result |-> "deploy",
                idleEmpty |-> (~deploying /\ filesToDeploy = <<>>)]
    /\ UNCHANGED <<filesToDeploy, synced, fetch>>

\* The 'configure' command of deploy i returns, res "ok" or "err"
\* (index.js:100-109): the error is caught, promiseThemekitConfig returns,
\* and deploy goes on to promiseThemekitDeploy (86, 112-135), which validates
\* the environment again and issues the 'deploy' command.  Had
\* promiseThemekitConfig thrown, deploy's catch (87) would skip the 'deploy'
\* command and go to lines 91-93.
configureReturns(i, res) ==
    /\ running
    /\ UNCHANGED slateEnv
    /\ i \in 1..Len(deploys)
    /\ deploys[i].pc = "configure"
    /\ IF promiseThemekitConfig(res) = "returned"
       THEN /\ \E valid \in BOOLEAN :
                 /\ deploys' = [deploys EXCEPT
                       ![i].pc = IF validateEnvValues(valid) THEN "deploy" ELSE "exit",
                       ![i].issued =
                           IF validateEnvValues(valid)
                           THEN Append(@, issue(deployCommand(deploys[i].cmd,
                                                              deploys[i].files), valid))
                           ELSE @]
                 /\ exited' = ~validateEnvValues(valid)
            /\ UNCHANGED deploying
       ELSE /\ deploys' = [deploys EXCEPT
                  ![i].pc = "done",
                  ![i].promise = deploySettles(res)]
            /\ deploying' = FALSE
            /\ UNCHANGED exited
    /\ last' = [kind |-> "configureReturns", result |-> res, idleEmpty |-> FALSE]
    /\ UNCHANGED <<filesToDeploy, synced, fetch>>

\* Mutant of deployReturns: no catch, so a failed command skips line 91.
deployReturns_flagStuckOnError(i, res) ==
    /\ running
    /\ UNCHANGED slateEnv
    /\ i \in 1..Len(deploys)
    /\ deploys[i].pc = "deploy"
    /\ deploys' = [deploys EXCEPT
            ![i].pc = "done",
            ![i].promise = IF res = "err" THEN "rejected" ELSE "resolved"]
    /\ deploying' = IF res = "err" THEN deploying ELSE FALSE
    /\ last' = [kind |-> "deployReturns", result |-> res, idleEmpty |-> FALSE]
    /\ UNCHANGED <<filesToDeploy, exited, synced, fetch>>

\* The 'deploy' command of deploy i returns (index.js:129-138, 87-93): the
\* error is caught, the flag is cleared and the promise settles with the
\* function maybeDeploy, which is returned, not called.
deployReturns(i, res) ==
    /\ running
    /\ UNCHANGED slateEnv
    /\ i \in 1..Len(deploys)
    /\ deploys[i].pc = "deploy"
    /\ deploys' = [deploys EXCEPT
            ![i].pc = "done",
            ![i].promise = deploySettles(res)]
    /\ deploying' = FALSE
    /\ last' = [kind |-> "deployReturns", result |-> res, idleEmpty |-> FALSE]
    /\ UNCHANGED <<filesToDeploy, exited, synced, fetch>>

\* index.js:147-160: fetchMainThemeId() called.  The environment is
\* validated first; when that passes the request is issued and the pending
\* promise returned.
fetchMainThemeId ==
    /\ running
    /\ UNCHANGED slateEnv
    /\ fetch.pc \in {"none", "ended"}
    /\ \E valid \in BOOLEAN :
          /\ fetch' = [pc |-> IF validateEnvValues(valid) THEN "requested" ELSE "exit",
                       envValid |-> valid, body |-> NoBody, result |-> NoResult]
          /\ exited' = ~validateEnvValues(valid)
    /\ last' = [kind |-> "fetchMainThemeId", result |-> "promise", idleEmpty |-> FALSE]
    /\ UNCHANGED <<deploying, filesToDeploy, deploys, synced>>

\* index.js:161-211: the response ends with `body` buffered.
responseEnds(body) ==
    /\ running
    /\ UNCHANGED slateEnv
    /\ fetch.pc = "requested"
    /\ fetch' = [fetch EXCEPT !.pc = "ended", !.body = body,
                                !.result = handleEnd(body)]
    /\ last' = [kind |-> "responseEnds", result |-> handleEnd(body).outcome,
                idleEmpty |-> FALSE]
    /\ UNCHANGED <<deploying, filesToDeploy, exited, deploys, synced>>

\* index.js:151: the request fails in transport.  The request https.get
\* returns is given no 'error' listener and the promise's reject is not
\* wired to it, so the promise stays pending.
requestErrors ==
    /\ running
    /\ UNCHANGED slateEnv
    /\ fetch.pc = "requested"
    /\ fetch' = [fetch EXCEPT !.pc = "errored"]
    /\ last' = [kind |-> "requestErrors", result |-> "pending", idleEmpty |-> FALSE]
    /\ UNCHANGED <<deploying, filesToDeploy, exited, deploys, synced>>

executorReturns ==
    \E i \in 1..Len(deploys), res \in {"ok", "err"} :
        configureReturns(i, res) \/ deployReturns(i, res)

\* The bound of a specification: a step leaves at most n deploy() calls made.
atMost(n) == Len(deploys') <= n

Next ==
    \/ \E files \in FileLists : sync(files) /\ atMost(MaxDeploys)
    \/ callMaybeDeploy /\ atMost(MaxDeploys)
    \/ upload /\ atMost(MaxDeploys)
    \/ replace /\ atMost(MaxDeploys)
    \/ \E i \in 1..Len(deploys), res \in {"ok", "err"} : configureReturns(i, res)
    \/ \E i \in 1..Len(deploys), res \in {"ok", "err"} : deployReturns(i, res)

Spec == Init /\ [][Next]_vars

NextFetch ==
    \/ fetchMainThemeId
    \/ \E body \in Bodies : responseEnds(body)
    \/ requestErrors

\* The theme-id resolver alone.
SpecFetch == Init /\ [][NextFetch]_vars

NextSync ==
    \/ \E files \in FileLists : sync(files) /\ atMost(MaxDeploys)
    \/ \E i \in 1..Len(deploys), res \in {"ok", "err"} : configureReturns(i, res)
    \/ \E i \in 1..Len(deploys), res \in {"ok", "err"} : deployReturns(i, res)

\* sync() and the returns of the themekit commands alone.
SpecSync == Init /\ [][NextSync]_vars

\* One path per array: the inputs of SpecOverlap.
OverlapFileLists == {<<"a.liquid">>, <<"b.liquid">>}

NextOverlap ==
    \/ \E files \in OverlapFileLists : sync(files) /\ atMost(MaxOverlap)
    \/ upload /\ atMost(MaxOverlap)
    \/ \E i \in 1..Len(deploys), res \in {"ok", "err"} : configureReturns(i, res)
    \/ \E i \in 1..Len(deploys), res \in {"ok", "err"} : deployReturns(i, res)

\* sync() and upload() with one more deploy() call: room for a deploy that
\* starts after an overlapping one has completed.
SpecOverlap == Init /\ [][NextOverlap]_vars

\* One path and two bodies: the inputs of SpecEnv.
EnvFileLists == {<<>>, <<"a.liquid">>}
EnvBodies == {b \in Bodies : b.kind = "unparsable" \/ (b.kind = "object" /\ b.errors = "string" /\ b.themes.kind = "absent")}

NextEnv ==
    \/ \E files \in EnvFileLists : sync(files) /\ atMost(MaxDeploys)
    \/ upload /\ atMost(MaxDeploys)
    \/ replace /\ atMost(MaxDeploys)
    \/ \E i \in 1..Len(deploys), res \in {"ok", "err"} : configureReturns(i, res)
    \/ \E i \in 1..Len(deploys), res \in {"ok", "err"} : deployReturns(i, res)
    \/ fetchMainThemeId
    \/ \E body \in EnvBodies : responseEnds(body)
    \/ requestErrors

\* Every place that reads the environment, together: the deploys and the
\* theme-id resolver in one process, in each of the environments considered.
SpecEnv == InitEnv /\ [][NextEnv]_vars

NextLive ==
    \/ \E files \in EnvFileLists : sync(files) /\ atMost(MaxDeploys)
    \/ callMaybeDeploy /\ atMost(MaxDeploys)
    \/ upload /\ atMost(MaxDeploys)
    \/ replace /\ atMost(MaxDeploys)
    \/ \E i \in 1..Len(deploys), res \in {"ok", "err"} : configureReturns(i, res)
    \/ \E i \in 1..Len(deploys), res \in {"ok", "err"} : deployReturns(i, res)
    \/ fetchMainThemeId
    \/ \E body \in EnvBodies : responseEnds(body)
    \/ requestErrors

\* Every exported function in one process, with the inputs of SpecEnv,
\* where every themekit command that is answered to a running process is
\* answered in the end.
LiveSpec == Init /\ [][NextLive]_vars /\ WF_vars(executorReturns)

\* ================================================================ claims

Results == {"ok", "err"}
A == "a.liquid"
B == "b.liquid"

\* C1: at most one deploy operation has started and not yet completed, in
\* every state reachable by sync, upload, replace and executor completions.
C1_AtMostOneInFlight == Cardinality(InFlight) <= 1

\* C2 as stated: from idle with nothing pending, sync(F1) then sync(F2), both
\* non-empty and with nothing in between, make exactly one deploy invocation,
\* and it carries the union of F1 and F2.
C2_OneDeployCarriesUnion ==
    [][\A F2 \in FileLists :
        (/\ last.kind = "sync" /\ last.result = "deploy" /\ last.idleEmpty
         /\ F2 # <<>>
         /\ sync(F2))
        => /\ Len(deploys') = Len(deploys)
           /\ Range(deploys'[Len(deploys')].files)
                = Range(deploys[Len(deploys)].files) \cup Range(F2)]_vars

\* C2 amended: from idle with nothing pending, sync(F1) starts one upload
\* deploy carrying the deduplicated F1; a sync(F2) that follows with nothing
\* in between starts none, is rejected with 'Deploy already in progress.'
\* and leaves the deduplicated F2 pending.
C2_OneDeployCarriesFirst ==
    [][/\ \A F1 \in FileLists :
            (~deploying /\ filesToDeploy = <<>> /\ F1 # <<>> /\ sync(F1))
            => /\ Len(deploys') = Len(deploys) + 1
               /\ deploys'[Len(deploys')].cmd = "upload"
               /\ deploys'[Len(deploys')].files = Dedup(F1)
               /\ filesToDeploy' = <<>>
       /\ \A F2 \in FileLists :
            (/\ last.kind = "sync" /\ last.result = "deploy" /\ last.idleEmpty
             /\ F2 # <<>>
             /\ sync(F2))
            => /\ deploys' = deploys
               /\ last'.result = "Deploy already in progress."
               /\ filesToDeploy' = Dedup(F2)]_vars

\* sync([a]) then sync([a, b]): one deploy carrying [a], [a, b] left pending.
C2_Witness ==
    /\ Len(deploys) = 1
    /\ deploys[1].pc = "configure"
    /\ deploys[1].files = <<A>>
    /\ filesToDeploy = <<A, B>>
    /\ last.kind = "sync"
    /\ last.result = "Deploy already in progress."

\* C3: every path handed to a non-empty sync() is still in filesToDeploy or
\* was in the snapshot handed to some deploy() call.
C3_NoFileLost == synced \subseteq (Range(filesToDeploy) \cup Handed)

\* A path handed to sync() while a deploy is in flight sits in filesToDeploy.
C3_Witness ==
    /\ deploying
    /\ InFlight # {}
    /\ B \in synced
    /\ B \in Range(filesToDeploy)
    /\ B \notin Handed

\* C4: maybeDeploy reached while `deploying` is set, by the caller of the
\* returned function or through sync, rejects with 'Deploy already in
\* progress.', starts no deploy, and leaves filesToDeploy (as it was on
\* entry to maybeDeploy) and `deploying` unchanged.
C4_BusyAttemptRejected ==
    [][/\ (deploying /\ callMaybeDeploy)
            => /\ last'.result = "Deploy already in progress."
               /\ UNCHANGED <<filesToDeploy, deploying, deploys>>
       /\ \A F \in FileLists :
            (deploying /\ F # <<>> /\ sync(F))
            => /\ last'.result = "Deploy already in progress."
               /\ filesToDeploy' = mergeFiles(filesToDeploy, F)
               /\ UNCHANGED <<deploying, deploys>>]_vars

\* maybeDeploy was called directly while a deploy was in flight and files
\* were pending.
C4_Witness ==
    /\ last.kind = "maybeDeploy"
    /\ last.result = "Deploy already in progress."
    /\ deploying
    /\ filesToDeploy # <<>>
    /\ InFlight # {}

\* C5: upload() and replace() called while `deploying` is set reject with
\* 'Deploy already in progress.' and issue no themekit command.
C5_ForcedDeployExcluded ==
    [][(deploying /\ (upload \/ replace))
        => /\ last'.result = "Deploy already in progress."
           /\ deploys' = deploys]_vars

\* Every themekit command issued is answered: no deploy stays in flight for
\* ever.  A process an uncaught exception has ended answers none.
everyCommandReturns == \A i \in 1..MaxDeploys : []<>(i \notin InFlight)

\* C6: the step that completes a deploy leaves `deploying` false, whatever
\* the commands returned; and, when every command returns and the
\* environment is valid at every validation, `deploying` set leads to
\* `deploying` cleared.
C6_IdleAfterCompletion ==
    /\ [][\A i \in 1..Len(deploys) :
            (deploys[i].pc # "done" /\ deploys'[i].pc = "done") => ~deploying']_vars
    /\ (everyCommandReturns /\ []~exited) => (deploying ~> ~deploying)

\* A deploy whose 'deploy' command failed has completed and the flag is clear.
C6_Witness ==
    /\ last.kind = "deployReturns"
    /\ last.result = "err"
    /\ ~deploying
    /\ \E i \in 1..Len(deploys) : deploys[i].pc = "done"

\* C7: no return of a themekit command, failed or not, rejects the promise
\* of its deploy() call, and the promise of a completed deploy is resolved.
C7_FailuresNotObservable ==
    [][\A i \in 1..Len(deploys), res \in Results :
        (configureReturns(i, res) \/ deployReturns(i, res))
        => /\ deploys'[i].promise # "rejected"
           /\ (deploys'[i].pc = "done" => deploys'[i].promise = "resolved")]_vars

\* The only deploy so far started by sync, its 'deploy' command failed, and
\* its promise is resolved.
C7_Witness ==
    /\ Len(deploys) = 1
    /\ deploys[1].files # <<>>
    /\ deploys[1].pc = "done"
    /\ deploys[1].promise = "resolved"
    /\ last.kind = "deployReturns"
    /\ last.result = "err"

\* C8: sync([]) rejects with 'No files to deploy.' in every state, starts no
\* deploy and changes neither filesToDeploy nor `deploying`.
C8_EmptySyncRejected ==
    [][sync(<<>>)
        => /\ last'.result = "No files to deploy."
           /\ UNCHANGED <<filesToDeploy, deploying, deploys, synced>>]_vars

\* sync([]) was called while a deploy was in flight and files were pending.
C8_Witness ==
    /\ last.kind = "sync"
    /\ last.result = "No files to deploy."
    /\ deploying
    /\ filesToDeploy # <<>>

\* The classification C9 states for a parsed body.
hasMain(themes) ==
    \E i \in 1..Len(themes.elems) : themes.elems[i].role = "main"

C9_Class(body) ==
    IF body.kind = "object" /\ body.errors # "absent" THEN "ApiError"
    ELSE IF body.kind # "object" \/ body.themes.kind # "array"
         THEN "MalformedResponseError"
    ELSE IF ~hasMain(body.themes) THEN "NoMainThemeError"
    ELSE "success"

\* C9: for every parsed response the call fails with ApiError when the
\* response has an `errors` field, else with MalformedResponseError when
\* `themes` is not an array, else with NoMainThemeError when no element has
\* role 'main', and succeeds in exactly the remaining cases.
C9_FailureClassification ==
    (fetch.pc = "ended" /\ fetch.body.kind # "unparsable")
    => IF C9_Class(fetch.body) = "success"
       THEN fetch.result.outcome = "resolved"
       ELSE /\ fetch.result.outcome = "rejected"
            /\ fetch.result.error = C9_Class(fetch.body)

\* C10: a resolved call carries the id of the first element of `themes`
\* whose role is 'main'.
C10_FirstMainWins ==
    (fetch.pc = "ended" /\ fetch.result.outcome = "resolved")
    => LET elems == fetch.body.themes.elems
       IN \E i \in 1..Len(elems) :
            /\ elems[i].role = "main"
            /\ \A j \in 1..(i - 1) : elems[j].role # "main"
            /\ fetch.result.value = elems[i].id

\* Two elements are marked main, after one that is not: the first main wins.
C10_Witness ==
    /\ fetch.pc = "ended"
    /\ fetch.body.themes.elems =
         << [kind |-> "object", id |-> 1, role |-> "unpublished"],
            [kind |-> "object", id |-> 2, role |-> "main"],
            [kind |-> "object", id |-> 1, role |-> "main"] >>
    /\ fetch.result = Resolved(2)

\* C11: a failed validation of the environment ends the process before the
\* command or request it stood before is issued: no themekit command and no
\* HTTPS request is ever issued on an invalid environment, and the call that
\* met the failure has exited the process.
C11_NoCommandOnInvalidEnv ==
    /\ \A i \in 1..Len(deploys) :
          /\ \A k \in 1..Len(deploys[i].issued) : deploys[i].issued[k].envValid
          /\ deploys[i].pc = "exit" => exited
    /\ fetch.pc \in {"requested", "ended", "errored"} => fetch.envValid
    /\ fetch.pc = "exit" => exited
    /\ exited => \/ fetch.pc = "exit" /\ ~fetch.envValid
                 \/ \E i \in 1..Len(deploys) : deploys[i].pc = "exit"

\* The validation before the 'deploy' command failed: the process has exited
\* with 'configure' issued and 'deploy' not.
C11_Witness ==
    /\ exited
    /\ \E i \in 1..Len(deploys) :
          /\ deploys[i].pc = "exit"
          /\ Len(deploys[i].issued) = 1
          /\ deploys[i].issued[1].name = "configure"

\* The names of the commands deploy i has issued, in order.
issuedNames(i) == [k \in 1..Len(deploys[i].issued) |-> deploys[i].issued[k].name]

\* C12: a 'deploy' command carries noDelete (= true) exactly when the mode is
\* 'upload', and always allow-live = true; a deploy started by sync() or
\* upload() is in 'upload' mode, one started by replace() in 'replace' mode.
C12_NoDeleteIffUpload ==
    /\ [](\A i \in 1..Len(deploys) : \A k \in 1..Len(deploys[i].issued) :
            deploys[i].issued[k].name = "deploy"
            => LET f == deploys[i].issued[k].flags
               IN /\ ("noDelete" \in DOMAIN f) <=> (deploys[i].cmd = "upload")
                  /\ ("noDelete" \in DOMAIN f) => f["noDelete"] = TRUE
                  /\ "allow-live" \in DOMAIN f
                  /\ f["allow-live"] = TRUE)
    /\ [][LET n == Len(deploys')
          IN /\ (n > Len(deploys) /\ last'.kind \in {"sync", "maybeDeploy", "upload"})
                    => deploys'[n].cmd = "upload"
             /\ (n > Len(deploys) /\ last'.kind = "replace")
                    => deploys'[n].cmd = "replace"]_vars

\* A replace() deploy and a sync() deploy have both issued their 'deploy'
\* command, in an environment with a timeout and two ignored files.
C12_Witness ==
    /\ Len(deploys) = 2
    /\ slateEnv = [timeout |-> "30s", ignoreFiles |-> <<"a", ":", "b">>]
    /\ \E i, j \in 1..2 :
          /\ deploys[i].cmd = "replace"
          /\ deploys[j].cmd = "upload" /\ deploys[j].files # <<>>
          /\ Len(deploys[i].issued) = 2
          /\ Len(deploys[j].issued) = 2
          /\ deploys[i].issued[2].flags["timeout"] = "30s"
          /\ deploys[j].issued[2].flags["ignoredFiles"] = << <<"a">>, <<"b">> >>

\* C13: the return of a themekit command, failed or not, starts no deploy
\* and leaves filesToDeploy as it is; filesToDeploy changes, and pending
\* files reach a deploy, only in a sync() or maybeDeploy() call; and a call
\* that hands over files that were pending before it is made when the
\* deploys sync() or maybeDeploy() started have completed.  Such a deploy
\* emptied filesToDeploy on starting, so one still in flight has been in
\* flight all the time the pending files accumulated.  This last part
\* fails: an upload() that completes clears `deploying` while the deploy it
\* overlapped is still in flight.
C13_NoDrainOnCompletion ==
    [][/\ \A i \in 1..Len(deploys), res \in Results :
            (configureReturns(i, res) \/ deployReturns(i, res))
            => /\ Len(deploys') = Len(deploys)
               /\ filesToDeploy' = filesToDeploy
       /\ filesToDeploy' # filesToDeploy => last'.kind \in {"sync", "maybeDeploy"}
       /\ (Len(deploys') > Len(deploys) /\ deploys'[Len(deploys')].files # <<>>)
            => last'.kind \in {"sync", "maybeDeploy"}
       /\ (/\ Len(deploys') > Len(deploys)
           /\ filesToDeploy # <<>>
           /\ Range(filesToDeploy) \subseteq Range(deploys'[Len(deploys')].files))
            => \A i \in InFlight : deploys[i].files = <<>>]_vars

\* C14: in the state a call leaves when maybeDeploy has taken the snapshot,
\* filesToDeploy is empty and `deploying` is already set.
C14_ClearAndBusyTogether ==
    (last.kind \in {"sync", "maybeDeploy"} /\ last.result = "deploy")
    => /\ deploying
       /\ filesToDeploy = <<>>
       /\ deploys[Len(deploys)].files # <<>>

\* sync() found files pending and the module idle, and started a deploy.
C14_Witness ==
    /\ last.kind = "sync"
    /\ last.result = "deploy"
    /\ ~last.idleEmpty
    /\ deploying
    /\ Len(deploys[Len(deploys)].files) = 2

\* C15: sync(files), files non-empty, called while `deploying` is set
\* rejects with 'Deploy already in progress.' and starts no deploy, and
\* filesToDeploy is then the duplicate-free union, in order of first
\* occurrence, of what it held and of files.
C15_BusySyncKeepsFiles ==
    [][\A F \in FileLists :
        (deploying /\ F # <<>> /\ sync(F))
        => /\ last'.result = "Deploy already in progress."
           /\ deploys' = deploys
           /\ Range(filesToDeploy') = Range(filesToDeploy) \cup Range(F)
           /\ Cardinality(Range(filesToDeploy')) = Len(filesToDeploy')
           /\ SubSeq(filesToDeploy', 1, Len(filesToDeploy)) = filesToDeploy]_vars

\* Two rejected sync() calls have left two paths pending behind a replace().
C15_Witness ==
    /\ last.kind = "sync"
    /\ last.result = "Deploy already in progress."
    /\ Len(deploys) = 1
    /\ deploys[1].cmd = "replace"
    /\ filesToDeploy = <<B, A>>

\* C16: sync(files), files non-empty, called while `deploying` is clear
\* starts exactly one deploy, in 'upload' mode, on the duplicate-free union
\* of what was pending and of files, and leaves filesToDeploy empty and
\* `deploying` set; no sync() call ends in maybeDeploy's 'nothing to do'.
C16_IdleSyncStartsOneDeploy ==
    [][\A F \in FileLists :
        sync(F)
        => /\ last'.result # "resolved"
           /\ (~deploying /\ F # <<>>)
                => /\ Len(deploys') = Len(deploys) + 1
                   /\ SubSeq(deploys', 1, Len(deploys)) = deploys
                   /\ deploys'[Len(deploys')].cmd = "upload"
                   /\ deploys'[Len(deploys')].files = Dedup(filesToDeploy \o F)
                   /\ filesToDeploy' = <<>>
                   /\ deploying']_vars

\* The second deploy was started by sync() on a pending path and a new one.
C16_Witness ==
    /\ last.kind = "sync"
    /\ last.result = "deploy"
    /\ Len(deploys) = 2
    /\ deploys[1].pc = "done"
    /\ deploys[2].files = <<B, A>>
    /\ filesToDeploy = <<>>

\* C17: upload() and replace() leave filesToDeploy as it is and start a
\* deploy with no files of it, whose 'deploy' command carries an explicit,
\* empty `files` list.
C17_ForcedDeployBypassesQueue ==
    /\ [][(upload \/ replace)
            => /\ filesToDeploy' = filesToDeploy
               /\ Len(deploys') = Len(deploys) + 1
               /\ deploys'[Len(deploys')].files = <<>>]_vars
    /\ [](\A i \in 1..Len(deploys) : \A k \in 1..Len(deploys[i].issued) :
            (deploys[i].issued[k].name = "deploy" /\ deploys[i].files = <<>>)
            => /\ "files" \in DOMAIN deploys[i].issued[k].flags
               /\ deploys[i].issued[k].flags["files"] = <<>>)

\* upload() was called with files pending, and its 'deploy' command issued,
\* in an environment with one ignored file.
C17_Witness ==
    /\ filesToDeploy # <<>>
    /\ slateEnv.ignoreFiles = <<"x">>
    /\ \E i \in 1..Len(deploys) :
          /\ deploys[i].cmd = "upload"
          /\ deploys[i].files = <<>>
          /\ deploys[i].pc = "deploy"
          /\ deploys[i].issued[2].flags["ignoredFiles"] = << <<"x">> >>

\* C18: whatever the outcome of the request (a body of any kind, a transport
\* error), once it is in the promise of fetchMainThemeId is settled,
\* resolved or rejected.
C18_EveryOutcomeSettles ==
    fetch.pc \in {"ended", "errored"}
    => fetch.result.outcome \in {"resolved", "rejected"}

\* C19: a deploy issues 'configure' first and 'deploy' only after
\* 'configure' has returned, each once; a failed 'configure' is followed by
\* 'deploy' all the same, unless the environment has turned invalid.
C19_ConfigureThenDeploy ==
    /\ [](\A i \in 1..Len(deploys) :
            /\ deploys[i].pc = "configure" => issuedNames(i) = <<"configure">>
            /\ deploys[i].pc \in {"deploy", "done"}
                    => issuedNames(i) = <<"configure", "deploy">>
            /\ deploys[i].pc = "exit" => issuedNames(i) \in {<<>>, <<"configure">>})
    /\ [][\A i \in 1..Len(deploys), res \in Results :
            (configureReturns(i, res) /\ ~exited')
            => /\ deploys'[i].pc = "deploy"
               /\ issuedNames(i)' = <<"configure", "deploy">>]_vars

\* 'configure' failed and 'deploy' has been issued after it, both with the
\* timeout and the ignored file of the environment.
C19_Witness ==
    /\ last.kind = "configureReturns"
    /\ last.result = "err"
    /\ Len(deploys) = 1
    /\ deploys[1].pc = "deploy"
    /\ issuedNames(1) = <<"configure", "deploy">>
    /\ slateEnv = [timeout |-> "30s", ignoreFiles |-> <<"x">>]
    /\ \A k \in 1..2 : /\ deploys[1].issued[k].flags["timeout"] = "30s"
                        /\ deploys[1].issued[k].flags["ignoredFiles"] = << <<"x">> >>

\* C20: with sync() and the command returns alone, in a running process
\* `deploying` is set exactly when one deploy is in flight and clear exactly
\* when none is.
C20_FlagTracksInFlight ==
    running
    => /\ deploying <=> Cardinality(InFlight) = 1
       /\ ~deploying <=> InFlight = {}

\* The second sync() deploy is in flight, the first has completed.
C20_Witness ==
    /\ deploying
    /\ Len(deploys) = 2
    /\ deploys[1].pc = "done"
    /\ InFlight = {2}

====
